---------------------------- MODULE Spec2Model ----------------------------
(***************************************************************************)
(* Black-Scholes pricing engine (src/bs_model.py) and the part of the      *)
(* Streamlit application (src/app.py) that drives it.                      *)
(*                                                                         *)
(* Numbers.  The engine computes with Python floats and numpy float64.     *)
(* A float is modelled as a record                                         *)
(*     [k |-> "fin" | "inf" | "nan", v |-> Int, neg |-> BOOLEAN,           *)
(*      np |-> BOOLEAN]                                                    *)
(* k is the IEEE-754 class, v the value in units of 1/SCALE (fixed point,  *)
(* six decimals), neg the sign bit (it tells -0.0 from 0.0 and -inf from   *)
(* inf) and np whether the object is a numpy scalar (numpy division by     *)
(* zero yields inf/nan, Python float division raises ZeroDivisionError).   *)
(* Arithmetic follows IEEE-754 on the classes and rounds finite results    *)
(* to the nearest unit.                                                    *)
(***************************************************************************)
EXTENDS Integers, Sequences, FiniteSets, TLC

\* One unit of the fixed-point representation is 1/SCALE.
SCALE == 10 ^ 6
\* Square root of SCALE: multiplication splits its operands at this base.
HALFSCALE == 10 ^ 3

---------------------------------------------------------------------------
(* Integer helpers *)

Abs(n) == IF n < 0 THEN -n ELSE n

Sgn(n) == IF n < 0 THEN -1 ELSE 1

\* a / b rounded to the nearest integer, halves away from zero (b > 0).
RDiv(a, b) == Sgn(a) * ((2 * Abs(a) + b) \div (2 * b))

RECURSIVE ISqrtIter(_, _)
ISqrtIter(n, y) ==
    LET z == (y + n \div y) \div 2
    IN  IF z >= y THEN y ELSE ISqrtIter(n, z)

\* floor(sqrt(n)) for n >= 0
ISqrt(n) == IF n <= 0 THEN 0 ELSE ISqrtIter(n, n)

---------------------------------------------------------------------------
(* Fixed-point arithmetic on finite magnitudes *)

\* a * b / SCALE
MulFix(a, b) ==
    LET A  == Abs(a)
        B  == Abs(b)
        A1 == A \div HALFSCALE
        A0 == A % HALFSCALE
        B1 == B \div HALFSCALE
        B0 == B % HALFSCALE
        t  == A1 * B0 + A0 * B1 + (A0 * B0) \div HALFSCALE
    IN  Sgn(a) * Sgn(b) * (A1 * B1 + (t + HALFSCALE \div 2) \div HALFSCALE)

RECURSIVE FracDigits(_, _, _, _)
\* n more decimal digits of rem / b appended to acc; rounds on the last one
FracDigits(rem, b, n, acc) ==
    IF n = 0
    THEN IF 2 * rem >= b THEN acc + 1 ELSE acc
    ELSE FracDigits((rem * 10) % b, b, n - 1, acc * 10 + (rem * 10) \div b)

RECURSIVE DivMag(_, _)
\* A * SCALE / B for A >= 0, B > 0
DivMag(A, B) ==
    IF B > 10 ^ 8
    THEN DivMag(A \div 10, B \div 10)
    ELSE FracDigits(A % B, B, 6, A \div B)

\* a * SCALE / b, b # 0
DivFix(a, b) == Sgn(a) * Sgn(b) * DivMag(Abs(a), Abs(b))

RECURSIVE SqrtNewton(_, _, _)
SqrtNewton(x, y, n) ==
    IF n = 0 \/ y = 0 THEN y
    ELSE SqrtNewton(x, (y + DivFix(x, y) + 1) \div 2, n - 1)

\* sqrt(x / SCALE) * SCALE for x >= 0
SqrtFix(x) ==
    IF x = 0 THEN 0
    ELSE SqrtNewton(x, (ISqrt(x) + 1) * HALFSCALE, 4)

LN2 == 693147

RECURSIVE LnReduce(_, _)
\* <<m, k>> with x = m * 2^k and SCALE <= m < 2 * SCALE
LnReduce(x, k) ==
    IF x >= 2 * SCALE THEN LnReduce((x + 1) \div 2, k + 1)
    ELSE IF x < SCALE THEN LnReduce(2 * x, k - 1)
    ELSE <<x, k>>

RECURSIVE AtanhSeries(_, _, _, _)
\* z + z^3/3 + z^5/5 + ... up to the power n; p is the current power of z
AtanhSeries(z2, p, i, n) ==
    IF i > n THEN 0
    ELSE RDiv(p, i) + AtanhSeries(z2, MulFix(p, z2), i + 2, n)

\* ln(x / SCALE) * SCALE for x > 0
LnFix(x) ==
    LET mk == LnReduce(x, 0)
        m  == mk[1]
        z  == DivFix(m - SCALE, m + SCALE)
    IN  mk[2] * LN2 + 2 * AtanhSeries(MulFix(z, z), z, 1, 13)

EULER == 2718282
EULERINV == 367879

RECURSIVE ExpTaylor(_, _, _, _)
\* 1 + f + f^2/2! + ... ; term is f^(i-1)/(i-1)!
ExpTaylor(f, term, i, n) ==
    IF i > n \/ term = 0 THEN 0
    ELSE term + ExpTaylor(f, RDiv(MulFix(term, f), i), i + 1, n)

RECURSIVE ExpInt(_, _)
\* acc * e^n
ExpInt(acc, n) ==
    IF n = 0 \/ acc = 0 THEN acc
    ELSE IF n > 0 THEN ExpInt(MulFix(acc, EULER), n - 1)
    ELSE ExpInt(MulFix(acc, EULERINV), n + 1)

\* exp(x / SCALE) * SCALE
ExpFix(x) ==
    LET n == x \div SCALE
        f == x - n * SCALE
    IN  IF n < -16 THEN 0 ELSE ExpInt(ExpTaylor(f, SCALE, 1, 14), n)

\* 1 / sqrt(2 pi)
INVSQRT2PI == 398942

\* standard normal density
PdfFix(x) ==
    IF Abs(x) >= 6 * SCALE THEN 0
    ELSE MulFix(ExpFix(-(MulFix(x, x) \div 2)), INVSQRT2PI)

\* standard normal distribution function for x >= 0
\* (Abramowitz and Stegun 26.2.17)
CdfUpper(x) ==
    LET t    == DivFix(SCALE, SCALE + MulFix(231642, x))
        poly == MulFix(t, 319382 + MulFix(t, -356564 + MulFix(t, 1781478
                  + MulFix(t, -1821256 + MulFix(t, 1330274)))))
    IN  SCALE - MulFix(PdfFix(x), poly)

CdfFix(x) ==
    IF x >= 6 * SCALE THEN SCALE
    ELSE IF x <= -6 * SCALE THEN 0
    ELSE IF x >= 0 THEN CdfUpper(x)
    ELSE SCALE - CdfUpper(-x)

---------------------------------------------------------------------------
(* Floats: IEEE-754 classes over the fixed-point magnitudes *)

\* a finite Python float / numpy float64 of v units
Fin(v, isnp) == [k |-> "fin", v |-> v, neg |-> v < 0, np |-> isnp]

Zero(negative, isnp) == [k |-> "fin", v |-> 0, neg |-> negative, np |-> isnp]

Inf(negative, isnp) == [k |-> "inf", v |-> 0, neg |-> negative, np |-> isnp]

NaN(isnp) == [k |-> "nan", v |-> 0, neg |-> FALSE, np |-> isnp]

\* a Python float literal or argument
Py(v) == Fin(v, FALSE)

\* the same number as a numpy float64 scalar
AsNp(a) == [a EXCEPT !.np = TRUE]

IsNaN(a) == a.k = "nan"

IsInf(a) == a.k = "inf"

IsFinite(a) == a.k = "fin"

IsZero(a) == a.k = "fin" /\ a.v = 0

\* a finite result of magnitude v whose sign bit is known even when v = 0
Signed(v, negative, isnp) ==
    IF v = 0 THEN Zero(negative, isnp) ELSE Fin(v, isnp)

FNeg(a) ==
    IF IsNaN(a) THEN a
    ELSE [a EXCEPT !.v = -a.v, !.neg = ~a.neg]

FAdd(a, b) ==
    LET isnp == a.np \/ b.np
    IN  IF IsNaN(a) \/ IsNaN(b) THEN NaN(isnp)
        ELSE IF IsInf(a) /\ IsInf(b)
             THEN IF a.neg = b.neg THEN Inf(a.neg, isnp) ELSE NaN(isnp)
        ELSE IF IsInf(a) THEN Inf(a.neg, isnp)
        ELSE IF IsInf(b) THEN Inf(b.neg, isnp)
        ELSE Signed(a.v + b.v, a.neg /\ b.neg, isnp)

FSub(a, b) == FAdd(a, FNeg(b))

FMul(a, b) ==
    LET isnp == a.np \/ b.np
        sign == a.neg # b.neg
    IN  IF IsNaN(a) \/ IsNaN(b) THEN NaN(isnp)
        ELSE IF (IsInf(a) /\ IsZero(b)) \/ (IsZero(a) /\ IsInf(b)) THEN NaN(isnp)
        ELSE IF IsInf(a) \/ IsInf(b) THEN Inf(sign, isnp)
        ELSE Signed(Abs(MulFix(a.v, b.v)) * (IF sign THEN -1 ELSE 1), sign, isnp)

\* numpy true division: a zero divisor gives inf or nan (and a RuntimeWarning),
\* never an exception
FDiv(a, b) ==
    LET isnp == a.np \/ b.np
        sign == a.neg # b.neg
    IN  IF IsNaN(a) \/ IsNaN(b) THEN NaN(isnp)
        ELSE IF IsInf(a) /\ IsInf(b) THEN NaN(isnp)
        ELSE IF IsZero(a) /\ IsZero(b) THEN NaN(isnp)
        ELSE IF IsInf(a) \/ IsZero(b) THEN Inf(sign, isnp)
        ELSE IF IsInf(b) THEN Zero(sign, isnp)
        ELSE Signed(Abs(DivFix(a.v, b.v)) * (IF sign THEN -1 ELSE 1), sign, isnp)

\* a < b on floats; every comparison with nan is false
FLess(a, b) ==
    IF IsNaN(a) \/ IsNaN(b) THEN FALSE
    ELSE IF IsInf(a) THEN a.neg /\ ~(IsInf(b) /\ b.neg)
    ELSE IF IsInf(b) THEN ~b.neg
    ELSE a.v < b.v

\* a == b on floats (0.0 == -0.0, nan # nan)
FEq(a, b) ==
    IF IsNaN(a) \/ IsNaN(b) THEN FALSE
    ELSE IF IsInf(a) \/ IsInf(b) THEN IsInf(a) /\ IsInf(b) /\ a.neg = b.neg
    ELSE a.v = b.v

\* np.sqrt
NpSqrt(a) ==
    IF IsNaN(a) THEN NaN(TRUE)
    ELSE IF IsZero(a) THEN Zero(a.neg, TRUE)
    ELSE IF a.neg THEN NaN(TRUE)
    ELSE IF IsInf(a) THEN Inf(FALSE, TRUE)
    ELSE Fin(SqrtFix(a.v), TRUE)

\* np.log
NpLog(a) ==
    IF IsNaN(a) THEN NaN(TRUE)
    ELSE IF IsZero(a) THEN Inf(TRUE, TRUE)
    ELSE IF a.neg THEN NaN(TRUE)
    ELSE IF IsInf(a) THEN Inf(FALSE, TRUE)
    ELSE Signed(LnFix(a.v), FALSE, TRUE)

\* np.exp
NpExp(a) ==
    IF IsNaN(a) THEN NaN(TRUE)
    ELSE IF IsInf(a) THEN (IF a.neg THEN Zero(FALSE, TRUE) ELSE Inf(FALSE, TRUE))
    ELSE Fin(ExpFix(a.v), TRUE)

\* scipy.stats.norm.cdf
NormCdf(a) ==
    IF IsNaN(a) THEN NaN(TRUE)
    ELSE IF IsInf(a) THEN (IF a.neg THEN Zero(FALSE, TRUE) ELSE Fin(SCALE, TRUE))
    ELSE Fin(CdfFix(a.v), TRUE)

\* scipy.stats.norm.pdf
NormPdf(a) ==
    IF IsNaN(a) THEN NaN(TRUE)
    ELSE IF IsInf(a) THEN Zero(FALSE, TRUE)
    ELSE Fin(PdfFix(a.v), TRUE)

\* an int or float literal of the source, n / d
Lit(n, d) == Py(RDiv(n * SCALE, d))

---------------------------------------------------------------------------
(* Python values other than floats *)

\* A str is a sequence of one-character strings, so that str.lower() is
\* computed character by character.
UpperCase == <<"A", "B", "C", "D", "E", "F", "G", "H", "I", "J", "K", "L", "M",
               "N", "O", "P", "Q", "R", "S", "T", "U", "V", "W", "X", "Y", "Z">>

LowerCase == <<"a", "b", "c", "d", "e", "f", "g", "h", "i", "j", "k", "l", "m",
               "n", "o", "p", "q", "r", "s", "t", "u", "v", "w", "x", "y", "z">>

LowerChar(c) ==
    IF \E i \in DOMAIN UpperCase : UpperCase[i] = c
    THEN LowerCase[CHOOSE i \in DOMAIN UpperCase : UpperCase[i] = c]
    ELSE c

\* str.lower()
Lower(str) == [i \in DOMAIN str |-> LowerChar(str[i])]

\* the outcome of a call: a returned value or a raised exception
Return(val) == [st |-> "return", val |-> val]

Raise(err) == [st |-> "raise", err |-> err]

Returned(out) == out.st = "return"

Raised(out) == out.st = "raise"

\* the builtin max(a, b): b when b > a, otherwise a
PyMax(a, b) == IF FLess(a, b) THEN b ELSE a

---------------------------------------------------------------------------
(* src/bs_model.py: BlackScholesModel *)

VARIABLES
    now,    \* the system clock, datetime.now(), in clock units since an epoch
    last,   \* the most recent completed call: [fn, args, out], and for
            \* calculate_time_to_expiry the clock value it read
    app     \* the application's script: where a run of it stands (pc), the
            \* widgets' values and what the run has fetched and computed

vars == <<now, last, app>>

\* Clock units per day: a datetime is a number of clock units, a date is
\* the day it falls in.
UnitsPerDay == 4

\* timedelta.days of (a - b): whole days, rounded towards minus infinity
TimedeltaDays(a, b) == (a - b) \div UnitsPerDay

DAYS_PER_YEAR == 365

\* 0.0001 years, the floor of the time to expiry
T_FLOOR == 100

\* the time to expiry without the floor
calculate_time_to_expiry_unclamped(expiration_date) ==
    Return(FDiv(Py(TimedeltaDays(expiration_date, now) * SCALE),
                Py(DAYS_PER_YEAR * SCALE)))

calculate_time_to_expiry(expiration_date) ==
    LET current_date   == now
        days_to_expiry == TimedeltaDays(expiration_date, current_date)
        T == PyMax(FDiv(Py(days_to_expiry * SCALE), Py(DAYS_PER_YEAR * SCALE)),
                   Py(T_FLOOR))
    IN  Return(T)

\* S / K on the arguments as passed: Python's float division raises on a zero
\* divisor unless one operand is a numpy scalar
PyDivRaises(a, b) == ~a.np /\ ~b.np /\ IsZero(b)

calculate_d1_d2(S, K, r, sigma, T) ==
    IF PyDivRaises(S, K) THEN Raise("ZeroDivisionError")
    ELSE
    LET sqrtT == NpSqrt(T)
        d1 == FDiv(FAdd(NpLog(FDiv(S, K)),
                        FMul(FAdd(r, FMul(Lit(1, 2), FMul(sigma, sigma))), T)),
                   FMul(sigma, sqrtT))
        d2 == FSub(d1, FMul(sigma, sqrtT))
    IN  Return([d1 |-> d1, d2 |-> d2])

CALL == <<"c", "a", "l", "l">>

PUT == <<"p", "u", "t">>

\* the branch taken when option_type.lower() == 'call'
CallPrice(S, K, r, T, d) ==
    FSub(FMul(S, NormCdf(d.d1)),
         FMul(FMul(K, NpExp(FMul(FNeg(r), T))), NormCdf(d.d2)))

\* the else branch
PutPrice(S, K, r, T, d) ==
    FSub(FMul(FMul(K, NpExp(FMul(FNeg(r), T))), NormCdf(FNeg(d.d2))),
         FMul(S, NormCdf(FNeg(d.d1))))

calculate_option_price(S, K, r, sigma, T, option_type) ==
    LET dd == calculate_d1_d2(S, K, r, sigma, T)
    IN  IF Raised(dd) THEN dd
        ELSE IF Lower(option_type) = CALL
             THEN Return(CallPrice(S, K, r, T, dd.val))
             ELSE Return(PutPrice(S, K, r, T, dd.val))

CallGreeks(S, K, r, sigma, T, d) ==
    LET sqrt_T     == NpSqrt(T)
        exp_neg_rT == NpExp(FMul(FNeg(r), T))
        n_prime_d1 == NormPdf(d.d1)
    IN  [delta |-> NormCdf(d.d1),
         gamma |-> FDiv(n_prime_d1, FMul(FMul(S, sigma), sqrt_T)),
         vega  |-> FDiv(FMul(FMul(S, n_prime_d1), sqrt_T), Lit(100, 1)),
         theta |-> FDiv(FSub(FDiv(FMul(FMul(FNeg(S), n_prime_d1), sigma),
                                  FMul(Lit(2, 1), sqrt_T)),
                             FMul(FMul(FMul(r, K), exp_neg_rT), NormCdf(d.d2))),
                        Lit(DAYS_PER_YEAR, 1)),
         rho   |-> FDiv(FMul(FMul(FMul(K, T), exp_neg_rT), NormCdf(d.d2)),
                        Lit(100, 1))]

PutGreeks(S, K, r, sigma, T, d) ==
    LET sqrt_T     == NpSqrt(T)
        exp_neg_rT == NpExp(FMul(FNeg(r), T))
        n_prime_d1 == NormPdf(d.d1)
    IN  [delta |-> FSub(NormCdf(d.d1), Lit(1, 1)),
         gamma |-> FDiv(n_prime_d1, FMul(FMul(S, sigma), sqrt_T)),
         vega  |-> FDiv(FMul(FMul(S, n_prime_d1), sqrt_T), Lit(100, 1)),
         theta |-> FDiv(FAdd(FDiv(FMul(FMul(FNeg(S), n_prime_d1), sigma),
                                  FMul(Lit(2, 1), sqrt_T)),
                             FMul(FMul(FMul(r, K), exp_neg_rT),
                                  NormCdf(FNeg(d.d2)))),
                        Lit(DAYS_PER_YEAR, 1)),
         rho   |-> FDiv(FMul(FMul(FMul(FNeg(K), T), exp_neg_rT),
                             NormCdf(FNeg(d.d2))),
                        Lit(100, 1))]

calculate_greeks(S, K, r, sigma, T, option_type) ==
    LET dd == calculate_d1_d2(S, K, r, sigma, T)
    IN  IF Raised(dd) THEN dd
        ELSE IF Lower(option_type) = CALL
             THEN Return(CallGreeks(S, K, r, sigma, T, dd.val))
             ELSE Return(PutGreeks(S, K, r, sigma, T, dd.val))

---------------------------------------------------------------------------
(* calculate_historical_volatility: pandas Series operations *)

\* Series.pct_change(): nan first, then P[t] / P[t-1] - 1
PctChange(price_data) ==
    [t \in DOMAIN price_data |->
        IF t = 1 THEN NaN(TRUE)
        ELSE FSub(FDiv(AsNp(price_data[t]), AsNp(price_data[t - 1])),
                  Lit(1, 1))]

\* dropna() that drops nothing
DropNaKeepsAll(series) == series

\* Series.dropna()
DropNa(series) == SelectSeq(series, LAMBDA x : ~IsNaN(x))

RECURSIVE FSum(_)
FSum(series) ==
    IF series = <<>> THEN Zero(FALSE, TRUE)
    ELSE FAdd(Head(series), FSum(Tail(series)))

RECURSIVE MaxAbs(_)
\* the largest magnitude among finite values
MaxAbs(series) ==
    IF series = <<>> THEN 0
    ELSE LET m == MaxAbs(Tail(series))
             h == Abs(Head(series).v)
         IN  IF h > m THEN h ELSE m

\* sample standard deviation (ddof = 1) of a window of observations:
\* nan with fewer than 2 observations or a non-finite observation
SampleStd(obs) ==
    LET n == Len(obs)
    IN  IF n < 2 \/ \E j \in DOMAIN obs : ~IsFinite(obs[j]) THEN NaN(TRUE)
        ELSE
        LET mean == RDiv(FSum(obs).v, n)
            dev  == [j \in DOMAIN obs |-> Fin(obs[j].v - mean, TRUE)]
            m    == MaxAbs(dev)
        IN  IF m = 0 THEN Zero(FALSE, TRUE)
            ELSE
            LET unit == [j \in DOMAIN dev |-> FDiv(dev[j], Fin(m, TRUE))]
                sq   == [j \in DOMAIN dev |-> FMul(unit[j], unit[j])]
                var  == RDiv(FSum(sq).v, n - 1)
            IN  Fin(MulFix(m, SqrtFix(var)), TRUE)

\* Series.rolling(window=window).std(): min_periods = window, so an entry
\* with fewer than window observations behind it is nan
RollingStd(series, window) ==
    [t \in DOMAIN series |->
        IF t < window THEN NaN(TRUE)
        ELSE SampleStd(SubSeq(series, t - window + 1, t))]

TRADING_DAYS == 252

\* 0.2, the default of 20%
DEFAULT_VOL == 200000

calculate_historical_volatility(price_data, window) ==
    LET returns        == DropNa(PctChange(price_data))
        daily_vol      == RollingStd(returns, window)
        annualized_vol == [t \in DOMAIN daily_vol |->
                             FMul(daily_vol[t], NpSqrt(Lit(TRADING_DAYS, 1)))]
    IN  IF Len(annualized_vol) > 0
        THEN Return(annualized_vol[Len(annualized_vol)])
        ELSE Return(Py(DEFAULT_VOL))

---------------------------------------------------------------------------
(* generate_sensitivity_data *)

\* the samples of np.linspace once div, delta and step are computed
LinspaceSamples(start, stop, num, div, delta, step) ==
    [i \in 1..num |->
        IF num > 1 /\ i = num THEN AsNp(stop)
        ELSE IF IsZero(step)
             THEN FAdd(FMul(FDiv(Fin((i - 1) * SCALE, TRUE), div), delta),
                       AsNp(start))
             ELSE FAdd(FMul(Fin((i - 1) * SCALE, TRUE), step), AsNp(start))]

LinspaceStep(start, stop, num, div, delta) ==
    LinspaceSamples(start, stop, num, div, delta, FDiv(delta, div))

\* np.linspace(start, stop, num): num < 0 raises ValueError; otherwise num
\* float64 samples start + i * step, the last one set to stop
Linspace(start, stop, num) ==
    IF num < 0 THEN Raise("ValueError")
    ELSE Return(LinspaceStep(start, stop, num,
                             Fin((IF num > 1 THEN num - 1 ELSE 1) * SCALE, TRUE),
                             FSub(AsNp(stop), AsNp(start))))

SPOT == <<"s", "p", "o", "t">>

STRIKE == <<"s", "t", "r", "i", "k", "e">>

VOLATILITY == <<"v", "o", "l", "a", "t", "i", "l", "i", "t", "y">>

TIME == <<"t", "i", "m", "e">>

\* 0.01, where the time sweep starts
TIME_SWEEP_START == 10000

\* 0.5 and 1.5, the ends of the volatility sweep as multiples of sigma
VOL_SWEEP_LOW == 500000

VOL_SWEEP_HIGH == 1500000

\* lines 163-174: the ends of the swept interval and the name of the varied
\* parameter; with an unrecognised param neither local variable is bound
SweepRange(S, K, sigma, T, param, range_pct) ==
    IF param = SPOT
    THEN [bound |-> TRUE, vary_param |-> "S",
          start |-> FMul(S, FSub(Lit(1, 1), range_pct)),
          stop  |-> FMul(S, FAdd(Lit(1, 1), range_pct))]
    ELSE IF param = STRIKE
    THEN [bound |-> TRUE, vary_param |-> "K",
          start |-> FMul(K, FSub(Lit(1, 1), range_pct)),
          stop  |-> FMul(K, FAdd(Lit(1, 1), range_pct))]
    ELSE IF param = VOLATILITY
    THEN [bound |-> TRUE, vary_param |-> "sigma",
          start |-> FMul(sigma, Py(VOL_SWEEP_LOW)),
          stop  |-> FMul(sigma, Py(VOL_SWEEP_HIGH))]
    ELSE IF param = TIME
    THEN [bound |-> TRUE, vary_param |-> "T",
          start |-> Py(TIME_SWEEP_START),
          stop  |-> T]
    ELSE [bound |-> FALSE]

GREEK_NAMES == {"delta", "gamma", "vega", "theta", "rho"}

\* a loop body that writes x to params['S'] whatever vary_param is: what the
\* iteration must differ from when another input is swept
SweepPointVariesSpot(base_params, vary_param, x, option_type) ==
    LET params == [base_params EXCEPT !["S"] = x]
    IN  [price  |-> calculate_option_price(params.S, params.K, params.r,
                                           params.sigma, params.T, option_type),
         greeks |-> calculate_greeks(params.S, params.K, params.r,
                                     params.sigma, params.T, option_type)]

\* lines 180-190: one iteration of the loop, on a copy of base_params with
\* params[vary_param] = x
SweepPoint(base_params, vary_param, x, option_type) ==
    LET params == [base_params EXCEPT ![vary_param] = x]
    IN  [price  |-> calculate_option_price(params.S, params.K, params.r,
                                           params.sigma, params.T, option_type),
         greeks |-> calculate_greeks(params.S, params.K, params.r,
                                     params.sigma, params.T, option_type)]

\* lines 176-196 given every iteration's outcome: the first exception raised
\* in the loop, or the three parallel results
SweepCollect(x_values, pts) ==
    IF \E i \in DOMAIN pts : Raised(pts[i].price)
    THEN pts[CHOOSE i \in DOMAIN pts :
                /\ Raised(pts[i].price)
                /\ \A j \in 1..(i - 1) : Returned(pts[j].price)].price
    ELSE Return([x_values |-> x_values,
                 prices |-> [i \in DOMAIN pts |-> pts[i].price.val],
                 greeks_dict |->
                    [g \in GREEK_NAMES |->
                       [i \in DOMAIN pts |-> pts[i].greeks.val[g]]]])

\* lines 176-196: the loop over x_values
SweepLoop(base_params, vary_param, x_values, option_type) ==
    SweepCollect(x_values,
                 [i \in DOMAIN x_values |->
                    SweepPoint(base_params, vary_param, x_values[i],
                               option_type)])

\* lines 163-196 given the swept interval
SweepOver(base_params, sweep, xs, option_type) ==
    IF Raised(xs) THEN xs
    ELSE SweepLoop(base_params, sweep.vary_param, xs.val, option_type)

SweepFrom(base_params, sweep, option_type, points) ==
    IF ~sweep.bound THEN Raise("UnboundLocalError")
    ELSE SweepOver(base_params, sweep,
                   Linspace(sweep.start, sweep.stop, points), option_type)

generate_sensitivity_data(S, K, r, sigma, T, option_type, param, range_pct, points) ==
    SweepFrom([S |-> S, K |-> K, r |-> r, sigma |-> sigma, T |-> T],
              SweepRange(S, K, sigma, T, param, range_pct), option_type, points)

---------------------------------------------------------------------------
(* Inputs *)

\* the clock stops at MaxNow; expiration datetimes range over 0..MaxExpiry
MaxNow == 5

MaxExpiry == 9

\* point counts range over -1..MaxPoints
MaxPoints == 3

\* price series have up to MaxLen closes; windows range over 1..MaxWindow
MaxLen == 4

MaxWindow == 3

Units(n, d) == RDiv(n * SCALE, d)

SVals == {Py(Units(-100, 1)), Py(0), Py(Units(100, 1)), Py(Units(110, 1))}

KVals == {Py(Units(-100, 1)), Py(0), Py(Units(100, 1))}

RVals == {Py(0), Py(Units(5, 100))}

SigmaVals == {Py(Units(-2, 10)), Py(0), Py(Units(2, 10))}

TVals == {Py(Units(-1, 1)), Py(0), Py(T_FLOOR), Py(Units(1, 1))}

STRADDLE == <<"s", "t", "r", "a", "d", "d", "l", "e">>

OptionTypes == {CALL, PUT, <<"C", "a", "l", "l">>, STRADDLE, <<>>}

\* base inputs of the sweeps
SweepS == {Py(Units(100, 1))}

SweepK == {Py(0), Py(Units(100, 1)), Py(Units(110, 1))}

SweepR == {Py(Units(5, 100))}

SweepSigma == {Py(Units(2, 10))}

SweepT == {Py(T_FLOOR), Py(Units(5, 1000)), Py(Units(1, 2)), Py(Units(1, 1))}

SweepTypes == {CALL, PUT}

RATE == <<"r", "a", "t", "e">>

Params == {SPOT, STRIKE, VOLATILITY, TIME, RATE, <<"S", "p", "o", "t">>}

RangePcts == {Py(Units(1, 10)), Py(Units(2, 10))}

PriceVals == {Py(Units(95, 1)), Py(Units(100, 1)), Py(Units(102, 1))}

RECURSIVE SeqsUpTo(_, _)
\* the sequences over S of length at most n
SeqsUpTo(S, n) ==
    IF n = 0 THEN {<<>>}
    ELSE LET shorter == SeqsUpTo(S, n - 1)
         IN  shorter \cup {Append(q, x) : q \in shorter, x \in S}

---------------------------------------------------------------------------
(* The callers of the engine.  A caller makes one call at a time; with the  *)
(* result in hand it repeats the same call, or drops the result and goes    *)
(* on to another call.  The clock runs meanwhile.                           *)

Idle == [fn |-> "idle"]

CanCall(fn, args) ==
    \/ last.fn = "idle"
    \/ (last.fn = fn /\ last.args = args)

Called(fn, args, out) == [fn |-> fn, args |-> args, out |-> out]

\* no exception yet in a run of the script
NONE == "none"

\* a float variable of the script that no statement has bound yet
NOT_SET == [k |-> "unbound", v |-> 0, neg |-> FALSE, np |-> FALSE]

\* the application's script about to run from the top, every widget at its
\* default: the auto-refresh checkbox is not ticked
AppStart ==
    [pc |-> "start", auto_refresh |-> FALSE, slept |-> 0,
     option_type |-> <<"C", "a", "l", "l">>,
     expiration_date |-> MaxExpiry \div UnitsPerDay,
     spot_price |-> NOT_SET, hist_data |-> <<>>, T |-> NOT_SET,
     error |-> NONE]

Init ==
    /\ now = 0
    /\ last = Idle
    /\ app = AppStart

Tick ==
    /\ now < MaxNow
    /\ now' = now + 1
    /\ UNCHANGED <<last, app>>

Drop ==
    /\ last.fn # "idle"
    /\ last' = Idle
    /\ UNCHANGED <<now, app>>

TimeToExpiryCall ==
    \E expiration_date \in 0..MaxExpiry :
        /\ CanCall("calculate_time_to_expiry", <<expiration_date>>)
        /\ last' = [fn |-> "calculate_time_to_expiry",
                     args |-> <<expiration_date>>,
                     current_date |-> now,
                     out |-> calculate_time_to_expiry(expiration_date)]
        /\ UNCHANGED <<now, app>>

D1D2Call ==
    \E S \in SVals, K \in KVals, r \in RVals, sigma \in SigmaVals, T \in TVals :
        /\ CanCall("calculate_d1_d2", <<S, K, r, sigma, T>>)
        /\ last' = Called("calculate_d1_d2", <<S, K, r, sigma, T>>,
                          calculate_d1_d2(S, K, r, sigma, T))
        /\ UNCHANGED <<now, app>>

OptionPriceCall ==
    \E S \in SVals, K \in KVals, r \in RVals, sigma \in SigmaVals, T \in TVals,
       option_type \in OptionTypes :
        /\ CanCall("calculate_option_price", <<S, K, r, sigma, T, option_type>>)
        /\ last' = Called("calculate_option_price",
                          <<S, K, r, sigma, T, option_type>>,
                          calculate_option_price(S, K, r, sigma, T, option_type))
        /\ UNCHANGED <<now, app>>

GreeksCall ==
    \E S \in SVals, K \in KVals, r \in RVals, sigma \in SigmaVals, T \in TVals,
       option_type \in OptionTypes :
        /\ CanCall("calculate_greeks", <<S, K, r, sigma, T, option_type>>)
        /\ last' = Called("calculate_greeks",
                          <<S, K, r, sigma, T, option_type>>,
                          calculate_greeks(S, K, r, sigma, T, option_type))
        /\ UNCHANGED <<now, app>>

HistoricalVolatilityCall ==
    \E price_data \in SeqsUpTo(PriceVals, MaxLen), window \in 1..MaxWindow :
        /\ CanCall("calculate_historical_volatility", <<price_data, window>>)
        /\ last' = Called("calculate_historical_volatility",
                          <<price_data, window>>,
                          calculate_historical_volatility(price_data, window))
        /\ UNCHANGED <<now, app>>

SensitivityCall ==
    \E S \in SweepS, K \in SweepK, r \in SweepR, sigma \in SweepSigma,
       T \in SweepT, option_type \in SweepTypes, param \in Params,
       range_pct \in RangePcts, points \in (-1)..MaxPoints :
        /\ CanCall("generate_sensitivity_data",
                   <<S, K, r, sigma, T, option_type, param, range_pct, points>>)
        /\ last' = Called("generate_sensitivity_data",
                          <<S, K, r, sigma, T, option_type, param, range_pct,
                            points>>,
                          generate_sensitivity_data(S, K, r, sigma, T,
                              option_type, param, range_pct, points))
        /\ UNCHANGED <<now, app>>

\* every caller of the engine
Next ==
    \/ Tick
    \/ Drop
    \/ TimeToExpiryCall
    \/ D1D2Call
    \/ OptionPriceCall
    \/ GreeksCall
    \/ HistoricalVolatilityCall
    \/ SensitivityCall

Spec == Init /\ [][Next]_vars

\* the callers of calculate_time_to_expiry, with the clock running
NextExpiry == Tick \/ Drop \/ TimeToExpiryCall

SpecExpiry == Init /\ [][NextExpiry]_vars

\* the callers of the price and Greeks functions
NextPricing == Drop \/ D1D2Call \/ OptionPriceCall \/ GreeksCall

SpecPricing == Init /\ [][NextPricing]_vars

\* the callers of calculate_historical_volatility
NextVol == Drop \/ HistoricalVolatilityCall

SpecVol == Init /\ [][NextVol]_vars

\* the callers of generate_sensitivity_data
NextSweep == Drop \/ SensitivityCall

SpecSweep == Init /\ [][NextSweep]_vars

---------------------------------------------------------------------------
(* The application: one run of the Streamlit script after another.  A run  *)
(* reads the widgets, then in its try block fetches the market data, calls  *)
(* the engine and draws the charts; an exception anywhere in the try block  *)
(* goes to the except handler.  When the script has ended, nothing runs     *)
(* until the user changes a widget.  The clock runs meanwhile.              *)

\* the seconds of time.sleep before st.rerun()
REFRESH_SECONDS == 10

\* the default of the historical volatility window widget
HIST_VOL_WINDOW == 30

\* the labels of the option type radio
CALL_LABEL == <<"C", "a", "l", "l">>

PUT_LABEL == <<"P", "u", "t">>

\* the days, counted from the epoch, the expiration date widget ranges over
ExpirationDays == 0..(MaxExpiry \div UnitsPerDay)

\* the strike price, volatility and risk-free rate widgets
AppStrike == Py(Units(100, 1))

AppVolatility == Py(Units(2, 10))

AppRate == Py(Units(5, 100))

\* what yfinance gives: the latest close, a numpy.float64, and the closes of
\* the last three months; or nothing for the ticker, and then
\* current_data['Close'].iloc[-1] raises IndexError
MarketData ==
    {[ok |-> TRUE, spot_price |-> Fin(Units(s, 1), TRUE), hist_data |-> h] :
        s \in {100, 110},
        h \in {<<>>, <<Py(Units(100, 1)), Py(Units(102, 1)), Py(Units(95, 1))>>}}
    \cup {[ok |-> FALSE, err |-> "IndexError"]}

\* the script's variables when a run of it starts: a run keeps nothing of
\* the run before it but the widgets' values
Fresh(a) ==
    [a EXCEPT !.pc = "start", !.spot_price = NOT_SET, !.hist_data = <<>>,
              !.T = NOT_SET, !.error = NONE]

\* how the option-chain lookup of lines 40-135 can end: with the option
\* widgets made, from the chain or by hand; with an exception before the
\* option type radio of line 48 is made; or with one after it
ChainOutcomes == {"widgets", "raised_before_radio", "raised_after_radio"}

\* lines 26-190: the script starts and reads the widgets, which keep the
\* values the user gave them.  An exception of the option-chain lookup goes
\* to the handler of line 137, which makes the widgets by hand; when the
\* radio of line 48 was made already, the handler's identical radio of line
\* 140 is a duplicate widget, which Streamlit refuses with an exception no
\* handler catches: the run ends there, before the try block of line 193
RunSidebar ==
    /\ app.pc = "start"
    /\ \E chain \in ChainOutcomes :
          app' = IF chain = "raised_after_radio"
                 THEN [app EXCEPT !.pc = "done", !.slept = 0,
                                  !.error = "DuplicateWidgetID"]
                 ELSE [app EXCEPT !.pc = "fetch", !.slept = 0]
    /\ UNCHANGED <<now, last>>

\* lines 193-207: the market data of the ticker
FetchMarketData ==
    /\ app.pc = "fetch"
    /\ \E data \in MarketData :
          app' = IF data.ok
                 THEN [app EXCEPT !.pc = "expiry",
                                  !.spot_price = data.spot_price,
                                  !.hist_data = data.hist_data]
                 ELSE [app EXCEPT !.pc = "except", !.error = data.err]
    /\ UNCHANGED <<now, last>>

\* the places of the try block where the script calls the engine, in order,
\* and for each the place where the call has come back
CallPcs == <<"expiry", "price", "histvol", "greeks", "sensitivity", "surface">>

CalledPcs == <<"expiry_called", "price_called", "histvol_called",
               "greeks_called", "sensitivity_called", "surface_called">>

\* the place after the last call: the end of the try block
AfterCalls == "refresh"

\* the position of a place in a sequence of places
PcIndex(pcs, pc) == CHOOSE i \in DOMAIN pcs : pcs[i] = pc

IsIn(pcs, pc) == \E i \in DOMAIN pcs : pcs[i] = pc

\* the script is inside a call of the engine
Calling == [app EXCEPT !.pc = CalledPcs[PcIndex(CallPcs, app.pc)]]

\* lines 210-212: T, for midnight of the expiration date
ExpiryStep ==
    /\ app.pc = "expiry"
    /\ last' = [fn |-> "calculate_time_to_expiry",
                args |-> <<app.expiration_date * UnitsPerDay>>,
                current_date |-> now,
                out |-> calculate_time_to_expiry(
                            app.expiration_date * UnitsPerDay)]
    /\ app' = Calling
    /\ UNCHANGED now

\* lines 215-231: the option price
PriceStep ==
    /\ app.pc = "price"
    /\ last' = Called("calculate_option_price",
                      <<app.spot_price, AppStrike, AppRate, AppVolatility,
                        app.T, Lower(app.option_type)>>,
                      calculate_option_price(app.spot_price, AppStrike,
                          AppRate, AppVolatility, app.T,
                          Lower(app.option_type)))
    /\ app' = Calling
    /\ UNCHANGED now

\* lines 233-238: the historical volatility
HistVolStep ==
    /\ app.pc = "histvol"
    /\ last' = Called("calculate_historical_volatility",
                      <<app.hist_data, HIST_VOL_WINDOW>>,
                      calculate_historical_volatility(app.hist_data,
                                                      HIST_VOL_WINDOW))
    /\ app' = Calling
    /\ UNCHANGED now

\* lines 240-275: the Greeks
GreeksStep ==
    /\ app.pc = "greeks"
    /\ last' = Called("calculate_greeks",
                      <<app.spot_price, AppStrike, AppRate, AppVolatility,
                        app.T, Lower(app.option_type)>>,
                      calculate_greeks(app.spot_price, AppStrike, AppRate,
                          AppVolatility, app.T, Lower(app.option_type)))
    /\ app' = Calling
    /\ UNCHANGED now

\* lines 277-397: the price history chart and the sensitivity analysis of the
\* parameter the selectbox names, with the default range_pct; the default
\* number of points is cut down to MaxPoints
SensitivityStep ==
    /\ app.pc = "sensitivity"
    /\ \E param \in {SPOT, STRIKE, VOLATILITY, TIME} :
          last' = Called("generate_sensitivity_data",
                         <<app.spot_price, AppStrike, AppRate, AppVolatility,
                           app.T, Lower(app.option_type), param, Lit(2, 10),
                           MaxPoints>>,
                         generate_sensitivity_data(app.spot_price, AppStrike,
                             AppRate, AppVolatility, app.T,
                             Lower(app.option_type), param, Lit(2, 10),
                             MaxPoints))
    /\ app' = Calling
    /\ UNCHANGED now

\* lines 413-418 given every cell's outcome: the first exception raised, or
\* the grid Z of deltas
SurfaceCollect(cells) ==
    IF \E c \in DOMAIN cells : Raised(cells[c])
    THEN cells[CHOOSE c \in DOMAIN cells : Raised(cells[c])]
    ELSE Return([Z |-> [c \in DOMAIN cells |-> cells[c].val.delta]])

SurfaceOver(spot_range, vol_range, K, r, T, option_type) ==
    SurfaceCollect([c \in (DOMAIN spot_range) \X (DOMAIN vol_range) |->
                       calculate_greeks(spot_range[c[1]], K, r,
                                        vol_range[c[2]], T, option_type)])

\* lines 404-418: the Greeks over a grid of spots and volatilities, n by n
GreeksSurface(spot_price, K, r, volatility, T, option_type, n) ==
    SurfaceOver(Linspace(FMul(spot_price, Lit(8, 10)),
                         FMul(spot_price, Lit(12, 10)), n).val,
                Linspace(FMul(volatility, Lit(5, 10)),
                         FMul(volatility, Lit(15, 10)), n).val,
                K, r, T, option_type)

\* lines 399-509: the Greeks surface, its grid cut down to MaxPoints a side,
\* and the payoff diagram
SurfaceStep ==
    /\ app.pc = "surface"
    /\ last' = Called("greeks_surface",
                      <<app.spot_price, AppStrike, AppRate, AppVolatility,
                        app.T, Lower(app.option_type)>>,
                      GreeksSurface(app.spot_price, AppStrike, AppRate,
                          AppVolatility, app.T, Lower(app.option_type),
                          MaxPoints))
    /\ app' = Calling
    /\ UNCHANGED now

\* a call made in the try block comes back: with an exception, which goes to
\* the except handler, or with its result, and the script goes on; T is kept
CallReturns ==
    /\ IsIn(CalledPcs, app.pc)
    /\ app' = IF Raised(last.out)
              THEN [app EXCEPT !.pc = "except", !.error = last.out.err]
              ELSE IF app.pc = "expiry_called"
              THEN [app EXCEPT !.pc = "price", !.T = last.out.val]
              ELSE IF app.pc = "surface_called"
              THEN [app EXCEPT !.pc = AfterCalls]
              ELSE [app EXCEPT !.pc = CallPcs[PcIndex(CalledPcs, app.pc) + 1]]
    /\ UNCHANGED <<now, last>>

\* line 512: the end of the try block
RefreshStep ==
    /\ app.pc = "refresh"
    /\ app' = [app EXCEPT !.pc = IF app.auto_refresh THEN "sleep" ELSE "done"]
    /\ UNCHANGED <<now, last>>

\* line 514: time.sleep(10), a second at a time
SleepSecond ==
    /\ app.pc = "sleep"
    /\ app.slept < REFRESH_SECONDS
    /\ app' = [app EXCEPT !.slept = app.slept + 1]
    /\ UNCHANGED <<now, last>>

\* line 515: st.rerun() ends this run and starts the script again; the
\* exception it raises to do so is not an Exception and passes the handler
Rerun ==
    /\ app.pc = "sleep"
    /\ app.slept = REFRESH_SECONDS
    /\ app' = Fresh(app)
    /\ last' = Idle
    /\ UNCHANGED now

\* lines 517-530: the except handler shows the error, and the script ends
\* with the footer
ExceptStep ==
    /\ app.pc = "except"
    /\ app' = [app EXCEPT !.pc = "done"]
    /\ UNCHANGED <<now, last>>

\* the user changes a widget: Streamlit abandons the run in progress, if
\* there is one, wherever it stands, and runs the script again from the top
Interact ==
    /\ \E auto_refresh \in BOOLEAN, option_type \in {CALL_LABEL, PUT_LABEL},
          expiration_date \in ExpirationDays :
          app' = [Fresh(app) EXCEPT !.slept = 0,
                                    !.auto_refresh = auto_refresh,
                                    !.option_type = option_type,
                                    !.expiration_date = expiration_date]
    /\ last' = Idle
    /\ UNCHANGED now

\* the script calls the engine
CallStep ==
    \/ ExpiryStep
    \/ PriceStep
    \/ HistVolStep
    \/ GreeksStep
    \/ SensitivityStep
    \/ SurfaceStep

\* the other steps the script takes by itself
ScriptStep ==
    \/ RunSidebar
    \/ FetchMarketData
    \/ CallReturns
    \/ RefreshStep
    \/ SleepSecond
    \/ Rerun
    \/ ExceptStep

NextApp == ScriptStep \/ CallStep \/ Interact \/ Tick

\* what a step of CallStep does to the script's position: the script enters
\* the call it stands before, whatever the call computes
EntersCall == IsIn(CallPcs, app.pc) /\ app' = Calling

\* a running script goes on running, and a call it makes comes back; the user
\* and the clock are free
SpecApp ==
    Init /\ [][NextApp]_vars /\ WF_app(ScriptStep) /\ WF_app(EntersCall)

---------------------------------------------------------------------------
(* Properties *)

IsPricingCall == last.fn \in {"calculate_option_price", "calculate_greeks"}

IsSweepCall == last.fn = "generate_sensitivity_data"

IsVolCall == last.fn = "calculate_historical_volatility"

IsExpiryCall == last.fn = "calculate_time_to_expiry"

\* x <= 0 for a finite float
NonPositive(x) == x.v <= 0

\* S, K, sigma and T, at positions 1, 2, 4 and 5 of the arguments, are all > 0
ValidDomain(args) ==
    ~NonPositive(args[1]) /\ ~NonPositive(args[2])
        /\ ~NonPositive(args[4]) /\ ~NonPositive(args[5])

\* 'call' or 'put' in any letter case
RecognizedType(option_type) == Lower(option_type) \in {CALL, PUT}

RecognizedParam(param) == param \in {SPOT, STRIKE, VOLATILITY, TIME}

\* what an input check at the public boundary raises
DomainErrors == {"ValueError"}

RaisedDomainError(out) == Raised(out) /\ out.err \in DomainErrors

\* C1: a call of calculate_option_price or calculate_greeks with S <= 0,
\* K <= 0, sigma <= 0 or T <= 0 ends in an explicitly raised domain error and
\* never returns a value.  Stated for the calls whose option type is a
\* recognised one, so that only the numeric domain is at fault.
C1_InvalidDomainRaises ==
    (IsPricingCall /\ RecognizedType(last.args[6]) /\ ~ValidDomain(last.args))
        => RaisedDomainError(last.out)

\* C2: a call of calculate_option_price or calculate_greeks whose option type
\* is neither Call nor Put ends in an explicitly raised domain error and never
\* returns a price or a Greeks record.  Stated for the calls whose numeric
\* inputs are valid, so that only the option type is at fault.
C2_UnknownTypeRaises ==
    (IsPricingCall /\ ~RecognizedType(last.args[6]) /\ ValidDomain(last.args))
        => RaisedDomainError(last.out)

\* C3: a call of generate_sensitivity_data whose param selector is not one of
\* 'spot', 'strike', 'volatility', 'time' ends in a domain error raised by an
\* input check.
C3_UnknownParamRaises ==
    (IsSweepCall /\ ~RecognizedParam(last.args[7]))
        => RaisedDomainError(last.out)

\* the whole days from current to expiration: the d with
\* d days <= expiration - current < d + 1 days
WholeDays(expiration, current) ==
    CHOOSE d \in (-(MaxNow + 1))..(MaxExpiry + 1) :
        /\ d * UnitsPerDay <= expiration - current
        /\ expiration - current < (d + 1) * UnitsPerDay

\* C4: calculate_time_to_expiry never raises and returns
\* T = max(d / 365, 0.0001), d the whole days from now to the expiration:
\* T >= 0.0001 > 0 always, and an expiration that is past-due or on the same
\* day as now yields exactly the floor.
C4_TimeToExpiryFloor ==
    IsExpiryCall =>
        LET expiration == last.args[1]
            current    == last.current_date
            d          == WholeDays(expiration, current)
        IN  /\ Returned(last.out)
            /\ IsFinite(last.out.val)
            /\ last.out.val.v >= T_FLOOR
            /\ last.out.val.v > 0
            /\ (expiration <= current
                  \/ expiration \div UnitsPerDay = current \div UnitsPerDay)
                 => last.out.val.v = T_FLOOR
            /\ d >= 1 =>
                 Abs(last.out.val.v * DAYS_PER_YEAR - d * SCALE) <= DAYS_PER_YEAR

\* C4 witness: a past-due expiration was given and the floor came back
C4_Witness ==
    /\ IsExpiryCall
    /\ last.args[1] < last.current_date
    /\ Returned(last.out)
    /\ last.out.val.v = T_FLOOR

\* C5: for valid base inputs, a recognised param and a point count N >= 0,
\* generate_sensitivity_data returns x_values, prices and the five Greek
\* sequences with the same length N, and x_values is strictly ascending.
C5_SweepAligned ==
    (IsSweepCall /\ ValidDomain(last.args) /\ RecognizedParam(last.args[7])
        /\ last.args[9] >= 0)
        => /\ Returned(last.out)
           /\ Len(last.out.val.x_values) = last.args[9]
           /\ Len(last.out.val.prices) = last.args[9]
           /\ \A g \in GREEK_NAMES :
                 Len(last.out.val.greeks_dict[g]) = last.args[9]
           /\ \A i \in 1..(last.args[9] - 1) :
                 FLess(last.out.val.x_values[i], last.out.val.x_values[i + 1])

\* the base value a param selector sweeps
SweptBase(args) ==
    IF args[7] = SPOT THEN args[1]
    ELSE IF args[7] = STRIKE THEN args[2]
    ELSE args[4]

\* C6: for param in {spot, strike, volatility} the first swept value is
\* base * (1 - range_pct) and the last is base * (1 + range_pct).  Stated for
\* sweeps of at least two points, which have a first and a last value.
C6_SweepEndPoints ==
    (IsSweepCall /\ last.args[7] \in {SPOT, STRIKE, VOLATILITY}
        /\ last.args[9] >= 2 /\ Returned(last.out))
        => /\ FEq(last.out.val.x_values[1],
                  FMul(SweptBase(last.args), FSub(Lit(1, 1), last.args[8])))
           /\ FEq(last.out.val.x_values[last.args[9]],
                  FMul(SweptBase(last.args), FAdd(Lit(1, 1), last.args[8])))

\* C7: for a price series with 0 or 1 elements and any window >= 1,
\* calculate_historical_volatility returns exactly 0.20: no exception, no nan.
C7_ShortSeriesFallback ==
    (IsVolCall /\ Len(last.args[1]) <= 1)
        => /\ Returned(last.out)
           /\ IsFinite(last.out.val)
           /\ last.out.val.v = DEFAULT_VOL

\* C7 witness: a one-element series was given and 0.20 came back
C7_Witness ==
    /\ IsVolCall
    /\ Len(last.args[1]) = 1
    /\ Returned(last.out)
    /\ last.out.val.v = DEFAULT_VOL

\* the valid return observations of a price series
ValidReturns(price_data) ==
    SelectSeq([t \in 1..(Len(price_data) - 1) |->
                  FSub(FDiv(price_data[t + 1], price_data[t]), Lit(1, 1))],
              LAMBDA x : IsFinite(x))

\* C8: with fewer than 2 valid return observations
\* calculate_historical_volatility returns the fallback constant 0.20.
C8_FewReturnsFallback ==
    (IsVolCall /\ Len(ValidReturns(last.args[1])) < 2)
        => /\ Returned(last.out)
           /\ IsFinite(last.out.val)
           /\ last.out.val.v = DEFAULT_VOL

\* C9: every core function is pure: a call repeated with equal arguments
\* returns the equal result, whatever time passed in between.
C9_Pure ==
    [][(last.fn # "idle" /\ last'.fn = last.fn /\ last'.args = last.args)
          => last'.out = last.out]_vars

\* the price and the Greeks record are the ones of the inputs S, K, r, sigma, T
PointMatches(S, K, r, sigma, T, option_type, price, greeks) ==
    /\ calculate_option_price(S, K, r, sigma, T, option_type) = Return(price)
    /\ calculate_greeks(S, K, r, sigma, T, option_type) = Return(greeks)

\* the price and the Greeks record are the ones of the caller's inputs a with
\* only the input the selector a[7] names replaced by x
FrameAt(a, x, price, greeks) ==
    IF a[7] = SPOT
    THEN PointMatches(x, a[2], a[3], a[4], a[5], a[6], price, greeks)
    ELSE IF a[7] = STRIKE
    THEN PointMatches(a[1], x, a[3], a[4], a[5], a[6], price, greeks)
    ELSE IF a[7] = VOLATILITY
    THEN PointMatches(a[1], a[2], a[3], x, a[5], a[6], price, greeks)
    ELSE PointMatches(a[1], a[2], a[3], a[4], x, a[6], price, greeks)

\* C11: at every swept point i the price and the Greeks at index i are the
\* ones evaluated on the caller's inputs with only the selected input
\* replaced by x_values[i]: the four other inputs and the option type are the
\* caller's at every point, whatever the earlier iterations wrote, and the
\* result at index i is a function of x_values[i] and the base inputs alone.
C11_SweepFrame ==
    (IsSweepCall /\ Returned(last.out))
        => \A i \in DOMAIN last.out.val.x_values :
              FrameAt(last.args, last.out.val.x_values[i],
                      last.out.val.prices[i],
                      [g \in GREEK_NAMES |-> last.out.val.greeks_dict[g][i]])

\* C11 witness: a strike sweep returned two points with different strikes
\* and different prices
C11_Witness ==
    /\ IsSweepCall
    /\ last.args[7] = STRIKE
    /\ Returned(last.out)
    /\ Len(last.out.val.x_values) >= 2
    /\ IsFinite(last.out.val.prices[1])
    /\ IsFinite(last.out.val.prices[2])
    /\ last.out.val.x_values[1] # last.out.val.x_values[2]
    /\ last.out.val.prices[1] # last.out.val.prices[2]

\* C12: for param = 'time' and every base T > 0, the expiry floor 0.0001
\* included, every swept time value is strictly positive and none exceeds
\* base T, the last one being base T.  Stated for sweeps of at least two
\* points, which have a first and a last value.
C12_TimeSweepWithinBase ==
    (IsSweepCall /\ last.args[7] = TIME /\ ~NonPositive(last.args[5])
        /\ last.args[9] >= 2 /\ Returned(last.out))
        => /\ \A i \in DOMAIN last.out.val.x_values :
                 /\ FLess(Zero(FALSE, TRUE), last.out.val.x_values[i])
                 /\ ~FLess(last.args[5], last.out.val.x_values[i])
           /\ FEq(last.out.val.x_values[last.args[9]], last.args[5])

\* the last n elements of a sequence of at least n elements
LastN(series, n) == SubSeq(series, Len(series) - n + 1, Len(series))

\* C13: for a price series with at least 2 valid return observations and
\* every window W >= 1, W = 1 and W above the number of returns included,
\* calculate_historical_volatility returns a defined scalar and never nan;
\* where W returns are there to take (2 <= W <= number of returns) it is the
\* sample standard deviation of the W most recent returns times sqrt(252).
C13_VolatilityDefined ==
    (IsVolCall /\ Len(ValidReturns(last.args[1])) >= 2)
        => /\ Returned(last.out)
           /\ ~IsNaN(last.out.val)
           /\ IsFinite(last.out.val)
           /\ (2 <= last.args[2]
                 /\ last.args[2] <= Len(ValidReturns(last.args[1])))
                => FEq(last.out.val,
                       FMul(SampleStd(LastN(ValidReturns(last.args[1]),
                                            last.args[2])),
                            NpSqrt(Lit(TRADING_DAYS, 1))))

\* the try block of a run is entered with the auto-refresh checkbox ticked
RunWithAutoRefresh == app.auto_refresh /\ app.pc = "fetch"

\* the script runs again from the top
Reinvoked == app.pc = "start"

\* C14: while the auto-refresh checkbox is ticked, every run of the main
\* pipeline is eventually followed by a re-invocation of the whole script,
\* the runs in which market-data retrieval or pricing raised an exception
\* that the pipeline caught and displayed included.  Every re-invocation
\* counts here, one the user causes too, and the claim is let off once the
\* user unticks the checkbox: only a script that has ended and is never run
\* again refutes it.
C14_AutoRefreshReruns ==
    RunWithAutoRefresh ~> (Reinvoked \/ ~app.auto_refresh)

=============================================================================
